---- MODULE Spec2Model ----
(***************************************************************************)
(* Model of packages/snowpack/src/commands/paint.ts: the dev-console       *)
(* dashboard (paint) and the port negotiation (getPort).                   *)
(*                                                                         *)
(* Text is modelled as a sequence of one-character strings, so that        *)
(* concatenation, startsWith, trim, replace and the regular expression of  *)
(* getPort are computed and not assumed.  A JavaScript value that may be   *)
(* null, undefined, an array, an Error or an object is a record            *)
(* [type, val].                                                            *)
(***************************************************************************)
EXTENDS Integers, Sequences, FiniteSets, TLC

(***************************************************************************)
(* Bounds of the model                                                     *)
(***************************************************************************)
\* number of handler runs (bus events and keypresses) in one run of the
\* whole dashboard, of the worker events alone, of the install events alone
MaxEvents == 3
MaxWorkerEvents == 4
MaxInstallEvents == 5

(***************************************************************************)
(* JavaScript values                                                       *)
(***************************************************************************)
Null == [type |-> "null", val |-> <<>>]
Undefined == [type |-> "undefined", val |-> <<>>]
Num(n) == [type |-> "number", val |-> <<n>>]
Arr(t) == [type |-> "array", val |-> t]
Err(m) == [type |-> "error", val |-> <<m>>]
Obj(t) == [type |-> "object", val |-> t]

\* no own property of that name: what stands for a field a payload object
\* or another object does not have
Absent == [type |-> "absent", val |-> <<>>]

\* ToBoolean of the values above (objects, arrays and Errors are truthy)
Truthy(v) ==
  CASE v.type = "null" -> FALSE
    [] v.type = "undefined" -> FALSE
    [] v.type = "number" -> v.val[1] # 0
    [] OTHER -> TRUE

\* a || b
JsOr(a, b) == IF Truthy(a) THEN a ELSE b

\* v > 0 for a number or undefined (undefined > 0 is false)
GtZero(v) == v.type = "number" /\ v.val[1] > 0

\* v < n for a number
LtNum(v, n) == v.type = "number" /\ v.val[1] < n

(***************************************************************************)
(* Text                                                                    *)
(***************************************************************************)
\* the characters String.prototype.trim removes: the WhiteSpace and
\* LineTerminator characters of ECMAScript; a character outside ASCII is
\* written as its code point
WhiteSpace ==
  {" ", "\n", "\t", "\r", "\f", "(U+000B)", "(U+00A0)", "(U+FEFF)", "(U+2028)", "(U+2029)",
   "(U+1680)", "(U+2000)", "(U+2001)", "(U+2002)", "(U+2003)", "(U+2004)", "(U+2005)",
   "(U+2006)", "(U+2007)", "(U+2008)", "(U+2009)", "(U+200A)", "(U+202F)", "(U+205F)",
   "(U+3000)"}

\* the first position from i on, and the last position up to i, that holds
\* no white space
RECURSIVE FirstKept(_, _)
FirstKept(s, i) ==
  IF i > Len(s) \/ s[i] \notin WhiteSpace THEN i ELSE FirstKept(s, i + 1)

RECURSIVE LastKept(_, _)
LastKept(s, i) ==
  IF i < 1 \/ s[i] \notin WhiteSpace THEN i ELSE LastKept(s, i - 1)

TrimOf(s) == SubSeq(s, FirstKept(s, 1), LastKept(s, Len(s)))

\* String.prototype.trim (the receiver is evaluated once, then trimmed)
Trim(s) == CHOOSE r \in {TrimOf(t) : t \in {s}} : TRUE

\* s.replace(/\n/gm, '\n  '), from position i on
RECURSIVE IndentFrom(_, _)
IndentFrom(s, i) ==
  IF i > Len(s) THEN <<>>
  ELSE (IF s[i] = "\n" THEN <<"\n", " ", " ">> ELSE <<s[i]>>) \o IndentFrom(s, i + 1)

\* s.replace(/\n/gm, '\n  ') (the receiver is evaluated once)
Indent(s) == CHOOSE r \in {IndentFrom(t, 1) : t \in {s}} : TRUE

\* String.prototype.startsWith
StartsWith(s, p) == Len(s) >= Len(p) /\ SubSeq(s, 1, Len(p)) = p

\* util.format.apply(util, args) for string arguments without format
\* specifiers: the arguments joined by one space
RECURSIVE Format(_)
Format(args) ==
  IF args = <<>> THEN <<>>
  ELSE IF Len(args) = 1 THEN args[1]
  ELSE args[1] \o <<" ">> \o Format(Tail(args))

\* the decoration functions of kleur/colors: an opening and a closing
\* escape sequence around the text
Style(name, s) == <<"<" \o name \o ">">> \o s \o <<"</" \o name \o ">">>

(***************************************************************************)
(* Inputs                                                                  *)
(***************************************************************************)
WorkerNames == {"a", "toString", "__proto__"}
ScriptLists == {<<>>, <<"toString", "a">>, <<"a", "__proto__">>}
\* a host: the scripts it hands to paint() and the worker ids it emits
Hosts ==
  { [scripts |-> <<>>, ids |-> {"a", "toString"}],
    [scripts |-> <<"toString", "a">>, ids |-> {"a", "toString"}],
    [scripts |-> <<>>, ids |-> {"toString", "__proto__"}],
    [scripts |-> <<"a", "__proto__">>, ids |-> {"a", "__proto__"}] }
MsgTexts == {<<"x", "\n">>, <<"\f", "y">>}
PhaseInputs == {Absent, Arr(<<"BUILD", "blue">>)}
ErrorInputs == {Absent, Err("E1"), Err("E2")}
Levels == {<<"l">>}
Tag404 == <<"[", "4", "0", "4", "]">>
ArgLists ==
  {<<Tag404 \o <<" ", "m">>>>, <<Tag404, <<"m">>>>, <<Tag404>>, <<<<"o", "\n">>>>, <<>>}
ModuleIds == {"A", "B"}
DataInputs == {Undefined, Obj(<<"s1", "p1">>), Obj(<<"s2", "p2">>)}
Cwd == <<"/", "proj">>
FilePaths == {Cwd \o <<"f.js">>, <<".", "f.js">>, Cwd \o <<"src", "..", "g.js">>}
ServerInfos ==
  { [startTimeMs |-> Num(25), hostname |-> "localhost", port |-> Num(8080),
     protocol |-> <<"http:">>, ips |-> <<"10.0.0.2">>],
    [startTimeMs |-> Num(1500), hostname |-> "localhost", port |-> Num(8080),
     protocol |-> <<"https:">>, ips |-> <<>>],
    [startTimeMs |-> Num(0), hostname |-> "localhost", port |-> Num(8080),
     protocol |-> <<"http:">>, ips |-> <<>>] }
KeyNames == {"return", "enter", "a"}

(***************************************************************************)
(* State                                                                   *)
(***************************************************************************)
VARIABLES
  WORKER_BASE_STATE,  \* the module-level constant object
  port, hostname, protocol, startTimeMs, ips,
  consoleOutput, installOutput, isInstalling, missingWebModule,
  allWorkerStates,    \* own properties of the object: name -> WorkerState
  workerKeys,         \* the order of its own properties (Object.entries)
  inheritedProps,     \* what allWorkerStates inherits: the properties the
                      \* handlers wrote on the functions of Object.prototype
                      \* and on Object.prototype, and the object that
                      \* replaced it as the prototype of allWorkerStates
  workerIds,          \* the worker ids the host emits
  allFileBuilds,
  devMode,            \* TRUE iff the host supplied devMode.addPackage
  timers,             \* pending setTimeout callbacks of INSTALL_COMPLETE
  pendingLog,         \* per pending callback, oldest first: whether
                      \* INSTALLING ran since it was scheduled
  paintedState,       \* the dashboard fields as the latest repaint() read them
  addPackageCalls,    \* arguments of the calls of devMode.addPackage
  msgLog,             \* per worker name: the msg texts since its last reset
                      \* (cur) and those before it (old)
  lastEvent,          \* the handler that ran last
  pre,                \* the dashboard fields when that handler began
  preInherited,       \* inheritedProps when that handler began
  nEvents,            \* the number of handlers that ran
  budget,             \* the number of handlers that may run
  pc, defaultPort, bestAvailablePort, isTTY, answer, prompts, probes, result

dashVars ==
  <<port, hostname, protocol, startTimeMs, ips, consoleOutput, installOutput,
    isInstalling, missingWebModule, allWorkerStates, workerKeys, allFileBuilds>>
portVars == <<pc, defaultPort, bestAvailablePort, isTTY, answer, prompts, probes, result>>
vars ==
  <<WORKER_BASE_STATE, dashVars, inheritedProps, workerIds, devMode, timers, pendingLog, paintedState,
    addPackageCalls, msgLog, lastEvent, pre, preInherited, nEvents, budget, portVars>>

ZeroWorker == [done |-> FALSE, error |-> Null, state |-> Null, output |-> <<>>]

\* {...WORKER_BASE_STATE}: a new object with the same field values
SpreadBase(base) ==
  [done |-> base.done, error |-> base.error, state |-> base.state, output |-> base.output]

\* creation of an own property: a new (non-index) string key goes last, an
\* existing key keeps its place
AddKey(keys, k) ==
  IF \E i \in 1..Len(keys) : keys[i] = k THEN keys ELSE Append(keys, k)

\* the accessor of Object.prototype that reads and replaces the prototype of
\* an object
ProtoKey == "__proto__"

\* the order of the own properties after allWorkerStates[id] = {...}:
\* assigning __proto__ replaces the prototype and creates no own property
ResetKeys(keys, id) == IF id = ProtoKey THEN keys ELSE AddKey(keys, id)

\* for (const script of scripts) allWorkerStates[script] = {...WORKER_BASE_STATE}
RECURSIVE ScriptKeys(_)
ScriptKeys(scripts) ==
  IF scripts = <<>> THEN <<>>
  ELSE ResetKeys(ScriptKeys(SubSeq(scripts, 1, Len(scripts) - 1)), scripts[Len(scripts)])

\* the function-valued members a plain object inherits from Object.prototype
\* (its one other member is the accessor __proto__)
InheritedNames ==
  {"constructor", "hasOwnProperty", "isPrototypeOf", "propertyIsEnumerable",
   "toLocaleString", "toString", "valueOf", "__defineGetter__", "__defineSetter__",
   "__lookupGetter__", "__lookupSetter__"}

\* an object that has none of the four properties as its own
NoProps == [done |-> Absent, error |-> Absent, state |-> Absent, output |-> Absent]

\* the four properties of the inherited function id, where props holds the
\* functions that have one of the four as an own property
PropsOf(props, id) == IF id \in DOMAIN props THEN props[id] ELSE NoProps

\* props after an assignment that leaves the inherited function id with new
SetProps(props, id, new) ==
  [n \in (DOMAIN props \ {id}) \cup (IF new = NoProps THEN {} ELSE {id}) |->
     IF n = id THEN new ELSE props[n]]

\* what allWorkerStates inherits when paint() begins: functions and an
\* Object.prototype without the four properties, the prototype not replaced
NoInherited ==
  [functions |-> [n \in {} |-> NoProps], objectPrototype |-> NoProps, replaced |-> <<>>]

\* a property read that finds no own property anywhere on the prototype
\* chain gives undefined
Get(v) == IF v = Absent THEN Undefined ELSE v

\* Object.prototype[field]
OpGet(inh, field) == Get(inh.objectPrototype[field])

\* allWorkerStates[id][field] for an inherited function id: its own
\* property, else that of Object.prototype
FnGet(inh, id, field) ==
  IF PropsOf(inh.functions, id)[field] # Absent
  THEN PropsOf(inh.functions, id)[field]
  ELSE OpGet(inh, field)

\* ({id, state}) and ({id, error}): the field of a payload, a plain object,
\* is read along its prototype chain
Payload(inh, v, field) == IF v = Absent THEN OpGet(inh, field) ELSE v

\* allWorkerStates[id] is truthy: id names a slot, or a member the object
\* inherits, a function or (for __proto__) its prototype. Worker ids are
\* non-index names other than done, error, state and output, the names of
\* the properties a handler may have put on the prototype
Found(states, id) == id \in DOMAIN states \/ id \in InheritedNames \/ id = ProtoKey

\* allWorkerStates[id] is an inherited function or the prototype: a handler
\* that assigns allWorkerStates[id].x writes the property x of that object
OnInherited(states, id) ==
  id \notin DOMAIN states /\ (id \in InheritedNames \/ id = ProtoKey)

\* setupWorker(id)
SetupWorker(states, base, id) ==
  IF Found(states, id) THEN states
  ELSE [n \in DOMAIN states \cup {id} |-> IF n = id THEN SpreadBase(base) ELSE states[n]]

SetupKeys(states, keys, id) == IF Found(states, id) THEN keys ELSE AddKey(keys, id)

\* the fields the dashboard consists of
Dashboard ==
  [port |-> port, hostname |-> hostname, protocol |-> protocol,
   startTimeMs |-> startTimeMs, ips |-> ips, consoleOutput |-> consoleOutput,
   installOutput |-> installOutput, isInstalling |-> isInstalling,
   missingWebModule |-> missingWebModule, allWorkerStates |-> allWorkerStates,
   workerKeys |-> workerKeys, allFileBuilds |-> allFileBuilds]

(***************************************************************************)
(* repaint(): what it writes to process.stdout when the dashboard is d     *)
(***************************************************************************)
Platform == "linux"

ClearPage == IF Platform = "win32" THEN <<"\\x1B[2J\\x1B[0f">> ELSE <<"\\x1B[2J\\x1B[3J\\x1B[H">>

ConsoleSection(d) ==
  IF d.consoleOutput # <<>>
  THEN Style("underline", Style("bold", <<"(U+25BC) Console">>)) \o <<"\n", "\n">>
       \o Indent(Trim(d.consoleOutput)) \o <<"\n", "\n">>
  ELSE <<>>

\* Array.isArray(workerState.error) ? colors.red : colors.reset
HeaderColor(error) == IF error.type = "array" THEN "red" ELSE "reset"

WorkerSection(script, workerState) ==
  IF workerState.output # <<>>
  THEN Style(HeaderColor(workerState.error),
             Style("underline", Style("bold", <<"(U+25BC) ", script>>))) \o <<"\n", "\n">>
       \o Indent(Trim(workerState.output)) \o <<"\n", "\n">>
  ELSE <<>>

\* for (const [script, workerState] of Object.entries(allWorkerStates))
RECURSIVE WorkerSections(_, _)
WorkerSections(d, i) ==
  IF i > Len(d.workerKeys) THEN <<>>
  ELSE WorkerSection(d.workerKeys[i], d.allWorkerStates[d.workerKeys[i]])
       \o WorkerSections(d, i + 1)

\* a variant that does not look at startTimeMs
isServerStartedByPort(d) == GtZero(d.port) /\ d.protocol # <<>>

isServerStarted(d) == GtZero(d.startTimeMs) /\ GtZero(d.port) /\ d.protocol # <<>>

\* `${v}` for a number or undefined
NumText(v) == IF v.type = "number" THEN ToString(v.val[1]) ELSE v.type

ServerUrl(d, host) == d.protocol \o <<"//", host, ":", NumText(d.port)>>

RECURSIVE IpList(_, _)
IpList(d, i) ==
  IF i > Len(d.ips) THEN <<>>
  ELSE Style("cyan", <<" (U+2022) ">>) \o Style("bold", Style("cyan", ServerUrl(d, d.ips[i])))
       \o IpList(d, i + 1)

ServerSection(d) ==
  IF isServerStarted(d)
  THEN <<" ", " ">> \o Style("bold", Style("cyan", ServerUrl(d, d.hostname))) \o IpList(d, 1)
       \o <<"\n">>
       \o Style("dim", IF LtNum(d.startTimeMs, 1000)
                       THEN <<"  Server started in ", NumText(d.startTimeMs), "ms.">>
                       ELSE <<"  Server started.">>)
       \o (IF d.allFileBuilds # {} THEN Style("dim", <<" Building...">>) ELSE <<>>)
       \o <<"\n", "\n">>
  ELSE Style("dim", <<"  Server starting(U+2026)">>) \o <<"\n", "\n">>

InstallSection(d) ==
  IF d.isInstalling
  THEN Style("underline", Style("bold", <<"(U+25BC) snowpack install">>)) \o <<"\n", "\n">>
       \o <<" ", " ">> \o Indent(Trim(d.installOutput)) \o <<"\n", "\n">>
  ELSE <<>>

Repaint(d) ==
  ClearPage \o ConsoleSection(d) \o WorkerSections(d, 1)
  \o Style("bold", <<"Snowpack">>) \o <<"\n", "\n">>
  \o ServerSection(d) \o InstallSection(d)

\* what the latest repaint() wrote: repaint() reads the dashboard fields and
\* nothing else
stdout == Repaint(paintedState)

\* a variant that repaints before the handler's assignments
PaintedTooEarly == paintedState' = Dashboard

\* a handler that ends in repaint()
Painted == paintedState' = Dashboard'
NotPainted == UNCHANGED paintedState

(***************************************************************************)
(* paint(bus, scripts, devMode): the state after the call                  *)
(***************************************************************************)
Ev(kind, id, arg, threw) == [kind |-> kind, id |-> id, arg |-> arg, threw |-> threw]

PortIdle ==
  /\ pc = "idle" /\ defaultPort = 0 /\ bestAvailablePort = 0 /\ isTTY = FALSE
  /\ answer = <<>> /\ prompts = 0 /\ probes = 0 /\ result = [kind |-> "none", value |-> 0]

\* the slots after the loop over scripts
ScriptStates(scripts, base) ==
  [n \in {scripts[i] : i \in 1..Len(scripts)} \ {ProtoKey} |-> SpreadBase(base)]

\* what allWorkerStates inherits after the loop over scripts
ScriptInherited(scripts, base) ==
  [NoInherited EXCEPT
     !.replaced = IF \E i \in 1..Len(scripts) : scripts[i] = ProtoKey
                  THEN <<SpreadBase(base)>> ELSE <<>>]

PaintInit ==
  /\ WORKER_BASE_STATE = ZeroWorker
  /\ port = Undefined /\ hostname = Undefined /\ protocol = <<>>
  /\ startTimeMs = Undefined /\ ips = <<>>
  /\ consoleOutput = <<>> /\ installOutput = <<>> /\ isInstalling = FALSE
  /\ missingWebModule = Null
  /\ \E h \in Hosts :
       /\ workerIds = h.ids
       /\ workerKeys = ScriptKeys(h.scripts)
       /\ allWorkerStates = ScriptStates(h.scripts, WORKER_BASE_STATE)
       /\ inheritedProps = ScriptInherited(h.scripts, WORKER_BASE_STATE)
  /\ preInherited = inheritedProps
  /\ allFileBuilds = {}
  /\ devMode \in BOOLEAN
  /\ timers = 0
  /\ pendingLog = <<>>
  /\ paintedState = Dashboard
  /\ addPackageCalls = <<>>
  /\ msgLog = [n \in WorkerNames |-> [old |-> <<>>, cur |-> <<>>]]
  /\ lastEvent = Ev("INIT", "", Undefined, FALSE)
  /\ pre = Dashboard
  /\ nEvents = 0

\* the whole dashboard, started by a host that supplies devMode.addPackage
\* (without it no keypress handler is installed and the bus handlers are the
\* same) and whose workers have names that leave the prototype alone
Init == PaintInit /\ devMode /\ ProtoKey \notin workerIds /\ PortIdle /\ budget = MaxEvents

\* the record of what ran while a callback was pending: INSTALL_COMPLETE
\* opens an entry, INSTALLING is noted in every open entry
PendingLogNext(log, kind) ==
  IF kind = "INSTALL_COMPLETE" THEN Append(log, FALSE)
  ELSE IF kind = "INSTALLING" THEN [i \in DOMAIN log |-> TRUE]
       ELSE log

\* what every bus handler and the keypress handler leave alone
Handled(kind, id, arg, threw) ==
  /\ nEvents < budget
  /\ nEvents' = nEvents + 1
  /\ lastEvent' = Ev(kind, id, arg, threw)
  /\ pre' = Dashboard
  /\ preInherited' = inheritedProps
  /\ pendingLog' = PendingLogNext(pendingLog, kind)
  /\ UNCHANGED <<WORKER_BASE_STATE, workerIds, devMode, budget, portVars>>

serverVars == <<port, hostname, protocol, startTimeMs, ips>>
installVars == <<consoleOutput, installOutput, isInstalling, missingWebModule>>
workerVars == <<allWorkerStates, workerKeys, inheritedProps>>

(***************************************************************************)
(* bus.on('BUILD_FILE')                                                    *)
(***************************************************************************)
\* a path is the sequence of its segments, "/" first for an absolute path.
\* The segments of a normalised path: "." and empty segments are dropped,
\* ".." takes the segment before it away (at the root it is dropped)
RECURSIVE NormalizeFrom(_, _)
NormalizeFrom(kept, rest) ==
  IF rest = <<>> THEN kept
  ELSE IF Head(rest) \in {".", ""} THEN NormalizeFrom(kept, Tail(rest))
  ELSE IF Head(rest) = ".."
  THEN NormalizeFrom(IF kept = <<>> THEN <<>> ELSE SubSeq(kept, 1, Len(kept) - 1), Tail(rest))
  ELSE NormalizeFrom(Append(kept, Head(rest)), Tail(rest))

\* path.resolve(cwd, id): the segments below the root of the absolute path
\* id stands for
PathResolve(cwd, id) ==
  IF id # <<>> /\ Head(id) = "/" THEN NormalizeFrom(<<>>, Tail(id))
  ELSE NormalizeFrom(<<>>, Tail(cwd) \o id)

\* the number of leading segments two paths share
RECURSIVE CommonLen(_, _)
CommonLen(a, b) ==
  IF a = <<>> \/ b = <<>> \/ Head(a) # Head(b) THEN 0 ELSE 1 + CommonLen(Tail(a), Tail(b))

\* path.relative(cwd, id) on POSIX: both paths are resolved, then one ".."
\* per segment of cwd that id does not share, then the rest of id
Relative(cwd, id) ==
  LET from == PathResolve(cwd, cwd)
      to == PathResolve(cwd, id)
      k == CommonLen(from, to)
  IN  [i \in 1..(Len(from) - k) |-> ".."] \o SubSeq(to, k + 1, Len(to))

FileBuildsNext(builds, id, isBuilding) ==
  IF isBuilding THEN builds \cup {Relative(Cwd, id)} ELSE builds \ {Relative(Cwd, id)}

BuildFile(id, isBuilding) ==
  /\ Handled("BUILD_FILE", "", Obj(<<id, isBuilding>>), FALSE)
  /\ allFileBuilds' = FileBuildsNext(allFileBuilds, id, isBuilding)
  /\ UNCHANGED <<serverVars, installVars, workerVars, timers, addPackageCalls, msgLog>>
  /\ Painted

(***************************************************************************)
(* bus.on('WORKER_...')                                                    *)
(***************************************************************************)
\* state is what the handler read from the payload
WorkerStartNext(states, base, id, state) ==
  LET s == SetupWorker(states, base, id)
  IN  IF id \in DOMAIN s
      THEN [s EXCEPT ![id].state = JsOr(state, Arr(<<"RUNNING", "yellow">>))]
      ELSE s

\* allWorkerStates[id].state = ... where allWorkerStates[id] is inherited:
\* a function, Object.prototype, or the object that replaced it
InheritedStartNext(inh, states, id, state) ==
  LET v == JsOr(state, Arr(<<"RUNNING", "yellow">>))
  IN  IF ~OnInherited(states, id) THEN inh
      ELSE IF id # ProtoKey
      THEN [inh EXCEPT !.functions =
              SetProps(inh.functions, id, [PropsOf(inh.functions, id) EXCEPT !.state = v])]
      ELSE IF inh.replaced = <<>> THEN [inh EXCEPT !.objectPrototype.state = v]
      ELSE [inh EXCEPT !.replaced[1].state = v]

WorkerStart(id, state) ==
  LET read == Payload(inheritedProps, state, "state")
  IN  /\ Handled("WORKER_START", id, state, FALSE)
      /\ allWorkerStates' = WorkerStartNext(allWorkerStates, WORKER_BASE_STATE, id, read)
      /\ workerKeys' = SetupKeys(allWorkerStates, workerKeys, id)
      /\ inheritedProps' = InheritedStartNext(inheritedProps, allWorkerStates, id, read)
      /\ UNCHANGED <<serverVars, installVars, allFileBuilds, timers, addPackageCalls, msgLog>>
      /\ Painted

WorkerMsgNext(states, base, id, msg) ==
  LET s == SetupWorker(states, base, id)
  IN  IF id \in DOMAIN s THEN [s EXCEPT ![id].output = s[id].output \o msg] ELSE s

\* a string made of the text t
Str(t) == [type |-> "string", val |-> t]

\* old + msg for a property that is undefined or a string:
\* undefined + 'x' is 'undefinedx'
PlusText(old, msg) ==
  IF old.type = "undefined"
  THEN Str(<<"u", "n", "d", "e", "f", "i", "n", "e", "d">> \o msg)
  ELSE Str(old.val \o msg)

InheritedMsgNext(inh, states, id, msg) ==
  IF ~OnInherited(states, id) THEN inh
  ELSE IF id # ProtoKey
  THEN [inh EXCEPT !.functions =
          SetProps(inh.functions, id,
                   [PropsOf(inh.functions, id) EXCEPT
                      !.output = PlusText(FnGet(inh, id, "output"), msg)])]
  ELSE IF inh.replaced = <<>>
  THEN [inh EXCEPT !.objectPrototype.output = PlusText(OpGet(inh, "output"), msg)]
  ELSE [inh EXCEPT !.replaced[1].output = inh.replaced[1].output \o msg]

WorkerMsg(id, msg) ==
  /\ Handled("WORKER_MSG", id, [type |-> "string", val |-> msg], FALSE)
  /\ allWorkerStates' = WorkerMsgNext(allWorkerStates, WORKER_BASE_STATE, id, msg)
  /\ workerKeys' = SetupKeys(allWorkerStates, workerKeys, id)
  /\ inheritedProps' = InheritedMsgNext(inheritedProps, allWorkerStates, id, msg)
  /\ msgLog' = [msgLog EXCEPT ![id].cur = Append(msgLog[id].cur, msg)]
  /\ UNCHANGED <<serverVars, installVars, allFileBuilds, timers, addPackageCalls>>
  /\ Painted

\* typeof v: a string
Typeof(v) ==
  [type |-> "string",
   val |-> IF v.type = "undefined" THEN <<"undefined">> ELSE <<"object">>]

\* typeof state !== undefined: a string compared with the value undefined
UpdateGuard(state) == Typeof(state) # Undefined

WorkerUpdateNext(states, base, id, state) ==
  IF UpdateGuard(state)
  THEN LET s == SetupWorker(states, base, id)
       IN  IF id \in DOMAIN s THEN [s EXCEPT ![id].state = state] ELSE s
  ELSE states

InheritedUpdateNext(inh, states, id, state) ==
  IF ~(UpdateGuard(state) /\ OnInherited(states, id)) THEN inh
  ELSE IF id # ProtoKey
  THEN [inh EXCEPT !.functions =
          SetProps(inh.functions, id, [PropsOf(inh.functions, id) EXCEPT !.state = state])]
  ELSE IF inh.replaced = <<>> THEN [inh EXCEPT !.objectPrototype.state = state]
  ELSE [inh EXCEPT !.replaced[1].state = state]

WorkerUpdate(id, state) ==
  LET read == Payload(inheritedProps, state, "state")
  IN  /\ Handled("WORKER_UPDATE", id, state, FALSE)
      /\ allWorkerStates' = WorkerUpdateNext(allWorkerStates, WORKER_BASE_STATE, id, read)
      /\ workerKeys' = IF UpdateGuard(read) THEN SetupKeys(allWorkerStates, workerKeys, id)
                       ELSE workerKeys
      /\ inheritedProps' = InheritedUpdateNext(inheritedProps, allWorkerStates, id, read)
      /\ UNCHANGED <<serverVars, installVars, allFileBuilds, timers, addPackageCalls, msgLog>>
      /\ Painted

\* a variant in which the last error wins
CompleteErrorLastWins(old, error) == JsOr(error, old)

\* allWorkerStates[id].error || error
CompleteError(old, error) == JsOr(old, error)

WorkerCompleteNext(states, id, error) ==
  [states EXCEPT ![id].state = Arr(<<"DONE", "green">>),
                 ![id].done = TRUE,
                 ![id].error = CompleteError(states[id].error, error)]

\* the value true
True == [type |-> "boolean", val |-> <<TRUE>>]

\* the three assignments where allWorkerStates[id] is inherited
InheritedCompleteNext(inh, id, error) ==
  IF id # ProtoKey
  THEN [inh EXCEPT !.functions =
          SetProps(inh.functions, id,
                   [PropsOf(inh.functions, id) EXCEPT
                      !.state = Arr(<<"DONE", "green">>),
                      !.done = True,
                      !.error = CompleteError(FnGet(inh, id, "error"), error)])]
  ELSE IF inh.replaced = <<>>
  THEN [inh EXCEPT !.objectPrototype.state = Arr(<<"DONE", "green">>),
                   !.objectPrototype.done = True,
                   !.objectPrototype.error = CompleteError(OpGet(inh, "error"), error)]
  ELSE [inh EXCEPT !.replaced[1].state = Arr(<<"DONE", "green">>),
                   !.replaced[1].done = TRUE,
                   !.replaced[1].error = CompleteError(inh.replaced[1].error, error)]

\* allWorkerStates[id] is the slot of id, or an object found along the
\* prototype chain, which takes the three assignments, or undefined: then
\* the first assignment throws a TypeError and the handler ends there
WorkerComplete(id, error) ==
  LET read == Payload(inheritedProps, error, "error")
  IN  IF id \in DOMAIN allWorkerStates
      THEN /\ Handled("WORKER_COMPLETE", id, error, FALSE)
           /\ allWorkerStates' = WorkerCompleteNext(allWorkerStates, id, read)
           /\ UNCHANGED <<workerKeys, inheritedProps, serverVars, installVars, allFileBuilds,
                          timers, addPackageCalls, msgLog>>
           /\ Painted
      ELSE IF OnInherited(allWorkerStates, id)
      THEN /\ Handled("WORKER_COMPLETE", id, error, FALSE)
           /\ inheritedProps' = InheritedCompleteNext(inheritedProps, id, read)
           /\ UNCHANGED <<dashVars, timers, addPackageCalls, msgLog>>
           /\ Painted
      ELSE /\ Handled("WORKER_COMPLETE", id, error, TRUE)
           /\ UNCHANGED <<dashVars, inheritedProps, timers, addPackageCalls, msgLog>>
           /\ NotPainted

\* a variant that resets the fields one by one and forgets the error
WorkerResetKeepsError(states, base, id) ==
  [n \in DOMAIN states \cup {id} |->
     IF n # id THEN states[n]
     ELSE IF id \in DOMAIN states
          THEN [SpreadBase(base) EXCEPT !.error = states[id].error]
          ELSE SpreadBase(base)]

\* allWorkerStates[id] = {...WORKER_BASE_STATE}: an assignment makes an own
\* property, also for a function name the object inherits; for __proto__
\* it makes none
WorkerResetNext(states, base, id) ==
  IF id = ProtoKey THEN states
  ELSE [n \in DOMAIN states \cup {id} |-> IF n = id THEN SpreadBase(base) ELSE states[n]]

\* the assignment to __proto__ makes the new object the prototype of
\* allWorkerStates
InheritedResetNext(inh, base, id) ==
  IF id = ProtoKey THEN [inh EXCEPT !.replaced = <<SpreadBase(base)>>] ELSE inh

WorkerReset(id) ==
  /\ Handled("WORKER_RESET", id, Undefined, FALSE)
  /\ allWorkerStates' = WorkerResetNext(allWorkerStates, WORKER_BASE_STATE, id)
  /\ workerKeys' = ResetKeys(workerKeys, id)
  /\ inheritedProps' = InheritedResetNext(inheritedProps, WORKER_BASE_STATE, id)
  /\ msgLog' = [msgLog EXCEPT ![id] = [old |-> msgLog[id].old \o msgLog[id].cur, cur |-> <<>>]]
  /\ UNCHANGED <<serverVars, installVars, allFileBuilds, timers, addPackageCalls>>
  /\ Painted

(***************************************************************************)
(* bus.on('CONSOLE'), bus.on('INSTALLING'), bus.on('INSTALL_COMPLETE')     *)
(***************************************************************************)
Prefix404 == Tag404 \o <<" ">>

\* a variant that tests the first argument instead of the formatted message
InstallOutputTestsFirstArg(installing, out, args) ==
  IF installing /\ ~(args # <<>> /\ StartsWith(args[1], Prefix404))
  THEN out \o Format(args) ELSE out

InstallOutputNext(installing, out, args) ==
  IF installing /\ ~StartsWith(Format(args), Prefix404) THEN out \o Format(args) ELSE out

\* a variant that keeps the newest line only
ConsoleOutputKeepsLastLine(installing, out, level, args) ==
  IF installing THEN out
  ELSE <<"[">> \o level \o <<"]", " ">> \o Format(args) \o <<"\n">>

ConsoleOutputNext(installing, out, level, args) ==
  IF installing THEN out
  ELSE out \o <<"[">> \o level \o <<"]", " ">> \o Format(args) \o <<"\n">>

Console(level, args) ==
  /\ Handled("CONSOLE", "", Obj(<<level, args>>), FALSE)
  /\ installOutput' = InstallOutputNext(isInstalling, installOutput, args)
  /\ consoleOutput' = ConsoleOutputNext(isInstalling, consoleOutput, level, args)
  /\ UNCHANGED <<isInstalling, missingWebModule, serverVars, workerVars, allFileBuilds,
                 timers, addPackageCalls, msgLog>>
  /\ Painted

\* a variant in which a new install cancels the pending callbacks
InstallingCancelsTimer ==
  /\ Handled("INSTALLING", "", Undefined, FALSE)
  /\ isInstalling' = TRUE
  /\ installOutput' = <<>>
  /\ timers' = 0
  /\ UNCHANGED <<consoleOutput, missingWebModule, serverVars, workerVars, allFileBuilds,
                 addPackageCalls, msgLog>>
  /\ Painted

Installing ==
  /\ Handled("INSTALLING", "", Undefined, FALSE)
  /\ isInstalling' = TRUE
  /\ installOutput' = <<>>
  /\ UNCHANGED <<consoleOutput, missingWebModule, serverVars, workerVars, allFileBuilds,
                 timers, addPackageCalls, msgLog>>
  /\ Painted

\* a variant that schedules nothing while a callback is already pending
ScheduleTimerOnce(n) == IF n > 0 THEN n ELSE n + 1

\* setTimeout(callback, 2000): one more pending callback, nothing else
ScheduleTimer(n) == n + 1

InstallComplete ==
  /\ Handled("INSTALL_COMPLETE", "", Undefined, FALSE)
  /\ timers' = ScheduleTimer(timers)
  /\ UNCHANGED <<dashVars, inheritedProps, addPackageCalls, msgLog>>
  /\ NotPainted

\* the callback of setTimeout; it is not a bus event and is not counted in
\* nEvents, so that a pending callback can always run; lastEvent.arg holds
\* whether INSTALLING ran while it was pending
InstallTimeout ==
  /\ timers > 0
  /\ timers' = timers - 1
  /\ missingWebModule' = Null
  /\ isInstalling' = FALSE
  /\ installOutput' = <<>>
  /\ consoleOutput' = <<>>
  /\ lastEvent' = Ev("TIMEOUT", "", Obj(<<Head(pendingLog)>>), FALSE)
  /\ pendingLog' = Tail(pendingLog)
  /\ pre' = Dashboard
  /\ preInherited' = inheritedProps
  /\ UNCHANGED <<WORKER_BASE_STATE, workerIds, devMode, portVars, nEvents, budget, serverVars,
                 workerVars,
                 allFileBuilds, addPackageCalls, msgLog>>
  /\ Painted

(***************************************************************************)
(* bus.on('MISSING_WEB_MODULE')                                            *)
(***************************************************************************)
\* {id, ...data} for data = {spec, pkgName}
Prompt(id, data) == Obj(<<id, data.val[1], data.val[2]>>)
PromptId(m) == m.val[1]
PromptPkgName(m) == m.val[3]

\* a variant without the replacement of the prompt of the same id
MissingWebModuleKeepsFirst(cur, id, data) ==
  IF ~Truthy(cur) THEN (IF Truthy(data) THEN Prompt(id, data) ELSE cur)
  ELSE IF PromptId(cur) = id /\ ~Truthy(data) THEN Null ELSE cur

\* a variant in which a detection for another id replaces the prompt
MissingWebModuleLatestWins(cur, id, data) ==
  IF Truthy(data) THEN Prompt(id, data)
  ELSE IF Truthy(cur) /\ PromptId(cur) = id THEN Null ELSE cur

\* a variant without the test of the id in the second if
MissingWebModuleNoIdTest(cur, id, data) ==
  LET first == IF ~Truthy(cur) /\ Truthy(data) THEN Prompt(id, data) ELSE cur
  IN  IF Truthy(first)
      THEN IF ~Truthy(data) THEN Null ELSE Prompt(id, data)
      ELSE first

MissingWebModuleNext(cur, id, data) ==
  LET first == IF ~Truthy(cur) /\ Truthy(data) THEN Prompt(id, data) ELSE cur
  IN  IF Truthy(first) /\ PromptId(first) = id
      THEN IF ~Truthy(data) THEN Null ELSE Prompt(id, data)
      ELSE first

MissingWebModule(id, data) ==
  /\ Handled("MISSING_WEB_MODULE", id, data, FALSE)
  /\ missingWebModule' = MissingWebModuleNext(missingWebModule, id, data)
  /\ UNCHANGED <<consoleOutput, installOutput, isInstalling, serverVars, workerVars,
                 allFileBuilds, timers, addPackageCalls, msgLog>>
  /\ Painted

(***************************************************************************)
(* bus.on('SERVER_START')                                                  *)
(***************************************************************************)
ServerStart(info) ==
  /\ Handled("SERVER_START", "", Undefined, FALSE)
  /\ startTimeMs' = info.startTimeMs
  /\ hostname' = info.hostname
  /\ port' = info.port
  /\ protocol' = info.protocol
  /\ ips' = info.ips
  /\ UNCHANGED <<installVars, workerVars, allFileBuilds, timers, addPackageCalls, msgLog>>
  /\ Painted

(***************************************************************************)
(* process.stdin.on('keypress')                                            *)
(***************************************************************************)
\* a variant that knows the key name return only
KeypressActsOnReturn(name, prompt) == name = "return" /\ Truthy(prompt)

\* the two early returns of the listener
KeypressActs(name, prompt) == name \in {"return", "enter"} /\ Truthy(prompt)

Keypress(name) ==
  /\ devMode
  /\ Handled("KEYPRESS", name, Undefined, FALSE)
  /\ UNCHANGED <<dashVars, inheritedProps, timers, msgLog>>
  /\ IF KeypressActs(name, missingWebModule)
     THEN /\ addPackageCalls' = Append(addPackageCalls, PromptPkgName(missingWebModule))
          /\ Painted
     ELSE /\ UNCHANGED addPackageCalls
          /\ NotPainted

(***************************************************************************)
(* The dashboard as a state machine                                        *)
(***************************************************************************)
WorkerEvent ==
  \E id \in workerIds :
    \/ \E state \in PhaseInputs : WorkerStart(id, state)
    \/ \E msg \in MsgTexts : WorkerMsg(id, msg)
    \/ \E state \in PhaseInputs : WorkerUpdate(id, state)
    \/ \E error \in ErrorInputs : WorkerComplete(id, error)
    \/ WorkerReset(id)

InstallEvent ==
  \/ \E level \in Levels, args \in ArgLists : Console(level, args)
  \/ Installing
  \/ InstallComplete
  \/ InstallTimeout
  \/ \E id \in ModuleIds, data \in DataInputs : MissingWebModule(id, data)
  \/ \E name \in KeyNames : Keypress(name)

OtherEvent ==
  \/ \E id \in FilePaths, isBuilding \in BOOLEAN : BuildFile(id, isBuilding)
  \/ \E info \in ServerInfos : ServerStart(info)

Next == WorkerEvent \/ InstallEvent \/ OtherEvent

Spec == Init /\ [][Next]_vars

\* the worker events alone; no worker handler reads devMode
WorkerInit == PaintInit /\ devMode /\ PortIdle /\ budget = MaxWorkerEvents
WorkerNext == WorkerEvent
SpecWorkers == WorkerInit /\ [][WorkerNext]_vars

\* the console, install, missing-module and keyboard events alone, on a
\* dashboard that shows workers: none of these handlers reads or writes a
\* worker
InstallInit ==
  /\ PaintInit /\ workerKeys # <<>> /\ ProtoKey \notin workerIds
  /\ PortIdle /\ budget = MaxInstallEvents
InstallNext == InstallEvent
SpecInstall == InstallInit /\ [][InstallNext]_vars

\* a pending setTimeout callback runs: the event loop of Node runs every
\* timer that is due; the host supplies devMode.addPackage, so that every
\* handler is installed
FairInit == InstallInit /\ devMode
SpecInstallFair == FairInit /\ [][InstallNext]_vars /\ WF_vars(InstallTimeout)

(***************************************************************************)
(* getPort(defaultPort)                                                    *)
(***************************************************************************)
Ports == {3000, 3001, 3002}
Answers ==
  { <<>>, <<"y">>, <<"Y">>, <<"n">>, <<"N">>, <<"n", "o">>, <<"N", "O">>, <<"N", "o">>,
    <<"n", "O">>, <<"n", "o", "n">>, <<"n", "o", "p", "e">>, <<" ", "n">>, <<"n", " ">>,
    <<"o">>, <<"o", "n">>, <<"y", "e", "s">>, <<"n", "n">>, <<"n", "\n">> }

\* a variant without the i flag
NoPatternCaseSensitive(s) ==
  /\ Len(s) \in {1, 2}
  /\ s[1] = "n"
  /\ Len(s) = 2 => s[2] = "o"

\* /^no?$/i.test(answer)
NoPattern(s) ==
  /\ Len(s) \in {1, 2}
  /\ s[1] \in {"n", "N"}
  /\ Len(s) = 2 => s[2] \in {"o", "O"}

PortInit ==
  /\ pc = "start"
  /\ defaultPort \in Ports
  /\ isTTY \in BOOLEAN
  /\ bestAvailablePort = 0 /\ answer = <<>> /\ prompts = 0 /\ probes = 0
  /\ result = [kind |-> "none", value |-> 0]
  /\ PaintInit /\ budget = 0

paintVars ==
  <<WORKER_BASE_STATE, dashVars, inheritedProps, workerIds, devMode, timers, pendingLog, paintedState,
    addPackageCalls, msgLog, lastEvent, pre, preInherited, nEvents, budget>>

\* await detectPort(defaultPort)
DetectPort(p) ==
  /\ pc = "start"
  /\ bestAvailablePort' = p
  /\ probes' = probes + 1
  /\ pc' = "probed"
  /\ UNCHANGED <<defaultPort, isTTY, answer, prompts, result, paintVars>>

\* the port is free: return bestAvailablePort
ReturnDefault ==
  /\ pc = "probed" /\ defaultPort = bestAvailablePort
  /\ result' = [kind |-> "return", value |-> bestAvailablePort]
  /\ pc' = "done"
  /\ UNCHANGED <<defaultPort, bestAvailablePort, isTTY, answer, prompts, probes, paintVars>>

\* rl.question(...)
Question ==
  /\ pc = "probed" /\ defaultPort # bestAvailablePort /\ isTTY
  /\ prompts' = prompts + 1
  /\ pc' = "asked"
  /\ UNCHANGED <<defaultPort, bestAvailablePort, isTTY, answer, probes, result, paintVars>>

\* if (!useNextPort) process.exit(1), else return bestAvailablePort
Outcome(useNextPort, best) ==
  IF ~useNextPort THEN [kind |-> "exit", value |-> 1] ELSE [kind |-> "return", value |-> best]

\* useNextPort stays false without a terminal
NoTerminal ==
  /\ pc = "probed" /\ defaultPort # bestAvailablePort /\ ~isTTY
  /\ result' = Outcome(FALSE, bestAvailablePort)
  /\ pc' = "done"
  /\ UNCHANGED <<defaultPort, bestAvailablePort, isTTY, answer, prompts, probes, paintVars>>

\* the callback of rl.question: resolve(!/^no?$/i.test(answer))
Answered(a) ==
  /\ pc = "asked"
  /\ answer' = a
  /\ result' = Outcome(~NoPattern(a), bestAvailablePort)
  /\ pc' = "done"
  /\ UNCHANGED <<defaultPort, bestAvailablePort, isTTY, prompts, probes, paintVars>>

PortNext ==
  \/ \E p \in Ports : DetectPort(p)
  \/ ReturnDefault
  \/ Question
  \/ NoTerminal
  \/ \E a \in Answers : Answered(a)

SpecPort == PortInit /\ [][PortNext]_vars

(***************************************************************************)
(* Properties                                                              *)
(***************************************************************************)
RECURSIVE Flatten(_)
Flatten(texts) == IF texts = <<>> THEN <<>> ELSE Head(texts) \o Flatten(Tail(texts))

\* the output of worker w in the dashboard d, empty for a name without a slot
OutputIn(d, w) ==
  IF w \in DOMAIN d.allWorkerStates THEN d.allWorkerStates[w].output ELSE <<>>

IsWorkerEvent(kind, w) == lastEvent.kind = kind /\ lastEvent.id = w

\* C1: the output of every worker is the concatenation, in event order, of
\* the msg texts of the WORKER_MSG events for it since its last WORKER_RESET
\* (or since paint() began), and a handler other than WORKER_MSG and
\* WORKER_RESET for that worker leaves its output as it was
C1_OutputIsConcatSinceReset ==
  \A w \in WorkerNames :
    /\ OutputIn(Dashboard, w) = Flatten(msgLog[w].cur)
    /\ ~(IsWorkerEvent("WORKER_MSG", w) \/ IsWorkerEvent("WORKER_RESET", w))
         => OutputIn(Dashboard, w) = OutputIn(pre, w)

\* C2: right after WORKER_RESET(id) the worker id is in the zero state
\* (done false, phase and error absent, output empty): allWorkerStates[id]
\* is a new object in that state, a slot or, for __proto__, the prototype;
\* and the shared base state is the zero state in every reachable state
C2_ResetRestoresZero ==
  /\ WORKER_BASE_STATE = [done |-> FALSE, error |-> Null, state |-> Null, output |-> <<>>]
  /\ lastEvent.kind = "WORKER_RESET" =>
       IF lastEvent.id = ProtoKey
       THEN inheritedProps.replaced =
              <<[done |-> FALSE, error |-> Null, state |-> Null, output |-> <<>>]>>
       ELSE /\ lastEvent.id \in DOMAIN allWorkerStates
            /\ allWorkerStates[lastEvent.id] =
                 [done |-> FALSE, error |-> Null, state |-> Null, output |-> <<>>]

\* a reset of a worker that was done with an error, a phase and output, while
\* another worker has output of its own
C2_Witness ==
  \E w \in DOMAIN pre.allWorkerStates, v \in DOMAIN allWorkerStates :
    /\ IsWorkerEvent("WORKER_RESET", w)
    /\ pre.allWorkerStates[w].done
    /\ pre.allWorkerStates[w].error.type = "error"
    /\ pre.allWorkerStates[w].state.type = "array"
    /\ pre.allWorkerStates[w].output # <<>>
    /\ v # w /\ allWorkerStates[v].output # <<>>
    /\ allWorkerStates[w].output = <<>>

\* the error allWorkerStates[w].error reads in the dashboard d with the
\* inherited objects inh, undefined for a name found nowhere
ErrorOf(d, inh, w) ==
  IF w \in DOMAIN d.allWorkerStates THEN d.allWorkerStates[w].error
  ELSE IF w = ProtoKey
  THEN (IF inh.replaced = <<>> THEN OpGet(inh, "error") ELSE inh.replaced[1].error)
  ELSE IF w \in InheritedNames THEN FnGet(inh, w, "error")
  ELSE Undefined

\* C3: a stored Error of a worker stays the stored error through every
\* handler except the WORKER_RESET of that worker, in the slot of the worker
\* and, for a name without a slot that the object inherits, on the
\* inherited object
C3_FirstErrorWins ==
  \A w \in WorkerNames \cup InheritedNames :
    (ErrorOf(pre, preInherited, w).type = "error" /\ ~IsWorkerEvent("WORKER_RESET", w))
      => ErrorOf(Dashboard, inheritedProps, w) = ErrorOf(pre, preInherited, w)

\* a second WORKER_COMPLETE with another Error leaves the first one stored
C3_Witness ==
  \E w \in DOMAIN pre.allWorkerStates :
    /\ IsWorkerEvent("WORKER_COMPLETE", w)
    /\ pre.allWorkerStates[w].error = Err("E1")
    /\ lastEvent.arg = Err("E2")
    /\ allWorkerStates[w].error = Err("E1")

\* the prompt {id, spec, pkgName} made of an event's id and data
ExpectedPrompt(id, data) ==
  [type |-> "object", val |-> <<id, data.val[1], data.val[2]>>]

NoPrompt(m) == m.type = "null"
HasData(data) == data.type = "object"

\* C4: MISSING_WEB_MODULE(A, data): with the prompt of id A active, no data
\* clears the prompt and data D2 replaces it with (A, D2); with no prompt
\* active, data D1 sets the prompt (A, D1) and no data leaves no prompt
C4_SameIdClearsOrReplaces ==
  lastEvent.kind = "MISSING_WEB_MODULE" =>
    LET p == pre.missingWebModule
        A == lastEvent.id
        data == lastEvent.arg
    IN  /\ (~NoPrompt(p) /\ p.val[1] = A /\ ~HasData(data)) => NoPrompt(missingWebModule)
        /\ (~NoPrompt(p) /\ p.val[1] = A /\ HasData(data))
             => missingWebModule = ExpectedPrompt(A, data)
        /\ (NoPrompt(p) /\ HasData(data)) => missingWebModule = ExpectedPrompt(A, data)
        /\ (NoPrompt(p) /\ ~HasData(data)) => NoPrompt(missingWebModule)

\* the prompt of id A with data D1 replaced by data D2 of the same id
C4_Witness ==
  /\ lastEvent.kind = "MISSING_WEB_MODULE"
  /\ ~NoPrompt(pre.missingWebModule)
  /\ pre.missingWebModule.val[1] = lastEvent.id
  /\ HasData(lastEvent.arg)
  /\ pre.missingWebModule # missingWebModule
  /\ missingWebModule = ExpectedPrompt(lastEvent.id, lastEvent.arg)

\* C5: with the prompt of id A active, MISSING_WEB_MODULE for another id,
\* with or without data, leaves the prompt as it was
C5_OtherIdIgnored ==
  (/\ lastEvent.kind = "MISSING_WEB_MODULE"
   /\ ~NoPrompt(pre.missingWebModule)
   /\ pre.missingWebModule.val[1] # lastEvent.id)
    => missingWebModule = pre.missingWebModule

\* a detection with data for id B while the prompt of id A is active
C5_Witness ==
  /\ lastEvent.kind = "MISSING_WEB_MODULE"
  /\ ~NoPrompt(pre.missingWebModule)
  /\ pre.missingWebModule.val[1] # lastEvent.id
  /\ HasData(lastEvent.arg)
  /\ lastEvent.arg.val # SubSeq(pre.missingWebModule.val, 2, 3)
  /\ missingWebModule = pre.missingWebModule

\* the answers that /^no?$/i matches
NoAnswers == {<<"n">>, <<"N">>, <<"n", "o">>, <<"n", "O">>, <<"N", "o">>, <<"N", "O">>}

Returned(p) == result = [kind |-> "return", value |-> p]
Exited(code) == result = [kind |-> "exit", value |-> code]

\* C6: getPort probes once and prompts at most once; when it ends: with the
\* probe result equal to defaultPort it returned defaultPort without a prompt;
\* with another result and no terminal it exited with status 1 without a
\* prompt; with another result and a terminal it prompted once and exited
\* with status 1 for the answers n and no in any case, and returned the probe
\* result for every other answer; it returns no port but the probe result
C6_GetPortOutcome ==
  /\ probes <= 1 /\ prompts <= 1
  /\ pc # "done" => result.kind = "none"
  /\ pc = "done" =>
       /\ probes = 1
       /\ bestAvailablePort = defaultPort => (Returned(defaultPort) /\ prompts = 0)
       /\ (bestAvailablePort # defaultPort /\ ~isTTY) => (Exited(1) /\ prompts = 0)
       /\ (bestAvailablePort # defaultPort /\ isTTY) =>
            /\ prompts = 1
            /\ answer \in NoAnswers => Exited(1)
            /\ answer \notin NoAnswers => Returned(bestAvailablePort)
       /\ result.kind = "return" => result.value = bestAvailablePort

\* the empty answer on a terminal accepts the other port
C6_Witness ==
  /\ pc = "done" /\ isTTY /\ defaultPort = 3000 /\ bestAvailablePort = 3001
  /\ answer = <<>> /\ prompts = 1 /\ Returned(3001)

\* C7: a CONSOLE event while installing leaves consoleOutput as it was, and
\* leaves installOutput as it was too when the formatted message begins with
\* "[404] " and appends the formatted message to it otherwise; a CONSOLE
\* event while not installing leaves installOutput as it was and appends
\* "[level] <formatted>\n" to consoleOutput
C7_ConsoleGoesToOneTranscript ==
  lastEvent.kind = "CONSOLE" =>
    LET level == lastEvent.arg.val[1]
        msg == Format(lastEvent.arg.val[2])
        is404 == /\ Len(msg) >= 6
                 /\ SubSeq(msg, 1, 6) = <<"[", "4", "0", "4", "]", " ">>
    IN  /\ pre.isInstalling =>
             /\ consoleOutput = pre.consoleOutput
             /\ is404 => installOutput = pre.installOutput
             /\ ~is404 => installOutput = pre.installOutput \o msg
        /\ ~pre.isInstalling =>
             /\ installOutput = pre.installOutput
             /\ consoleOutput = pre.consoleOutput \o <<"[">> \o level \o <<"]", " ">>
                                  \o msg \o <<"\n">>
        /\ isInstalling = pre.isInstalling

\* while installing, two arguments that format to a message with the prefix
C7_Witness ==
  /\ lastEvent.kind = "CONSOLE"
  /\ pre.isInstalling
  /\ pre.installOutput # <<>>
  /\ Len(lastEvent.arg.val[2]) = 2
  /\ StartsWith(Format(lastEvent.arg.val[2]), <<"[", "4", "0", "4", "]", " ">>)
  /\ installOutput = pre.installOutput
  /\ consoleOutput = pre.consoleOutput

Cleared ==
  /\ isInstalling = FALSE /\ installOutput = <<>> /\ consoleOutput = <<>>
  /\ missingWebModule = Null

\* C8: INSTALL_COMPLETE changes no dashboard field and adds one pending
\* callback; a pending callback is removed only by running, once; right after
\* it ran, isInstalling is false, installOutput and consoleOutput are empty,
\* there is no prompt and the screen shows that state; and every pending
\* callback runs in the end
C8_InstallCompleteClearsLater ==
  /\ [][lastEvent'.kind = "INSTALL_COMPLETE" =>
          (Dashboard' = Dashboard /\ paintedState' = paintedState /\ timers' = timers + 1)]_vars
  /\ [][timers' < timers => (lastEvent'.kind = "TIMEOUT" /\ timers' = timers - 1)]_vars
  /\ [][lastEvent'.kind = "TIMEOUT" => timers' = timers - 1]_vars
  /\ [](lastEvent.kind = "TIMEOUT" =>
          (Cleared /\ paintedState = Dashboard))
  /\ (lastEvent.kind = "INSTALL_COMPLETE") ~> (lastEvent.kind = "TIMEOUT" /\ Cleared)
  /\ (timers > 0) ~> (timers = 0)

\* the callback ran on a dashboard that was installing, with text in both
\* transcripts and an active prompt
C8_Witness ==
  /\ lastEvent.kind = "TIMEOUT"
  /\ pre.isInstalling /\ pre.installOutput # <<>> /\ pre.consoleOutput # <<>>
  /\ pre.missingWebModule # Null
  /\ Cleared

\* C10: between two handlers the latest repaint shows the current dashboard:
\* the fields painted last are the current fields, from the start on
C10_PaintedIsCurrent == paintedState = Dashboard /\ stdout = Repaint(Dashboard)

\* the delayed action changed the dashboard and the screen shows the result
C10_Witness ==
  /\ lastEvent.kind = "TIMEOUT"
  /\ pre # Dashboard
  /\ pre.allFileBuilds # {}
  /\ paintedState = Dashboard

\* C11: a keypress is handled only when the host supplied addPackage; return
\* or enter with an active prompt calls addPackage once with the pkgName of
\* the prompt and repaints; return or enter without a prompt, and any other
\* key, call nothing; no keypress changes a dashboard field, and no other
\* handler calls addPackage
C11_KeypressCallsAddPackage ==
  [][ /\ (lastEvent'.kind = "KEYPRESS" =>
            /\ devMode
            /\ Dashboard' = Dashboard
            /\ IF lastEvent'.id \in {"return", "enter"} /\ missingWebModule.type = "object"
               THEN /\ addPackageCalls' = Append(addPackageCalls, missingWebModule.val[3])
                    /\ paintedState' = Dashboard'
               ELSE addPackageCalls' = addPackageCalls)
      /\ (lastEvent'.kind # "KEYPRESS" => addPackageCalls' = addPackageCalls)
      /\ (~devMode => addPackageCalls' = <<>>) ]_vars

\* enter pressed while a prompt is active: one call, with its pkgName
C11_Witness ==
  /\ lastEvent.kind = "KEYPRESS" /\ lastEvent.id = "enter"
  /\ missingWebModule.type = "object"
  /\ pre.missingWebModule = missingWebModule
  /\ addPackageCalls = <<missingWebModule.val[3]>>

WorkerKinds ==
  {"WORKER_START", "WORKER_MSG", "WORKER_UPDATE", "WORKER_COMPLETE", "WORKER_RESET"}

\* the last handler was a worker handler for a name that had no slot
UnknownWorkerEvent ==
  lastEvent.kind \in WorkerKinds /\ lastEvent.id \notin DOMAIN pre.allWorkerStates

\* what the rule of a worker event makes of a worker in the zero state
RuleOnZero(kind, arg) ==
  CASE kind = "WORKER_START" ->
         [ZeroWorker EXCEPT !.state = JsOr(Get(arg), Arr(<<"RUNNING", "yellow">>))]
    [] kind = "WORKER_MSG" -> [ZeroWorker EXCEPT !.output = arg.val]
    [] kind = "WORKER_UPDATE" ->
         IF arg = Absent THEN ZeroWorker ELSE [ZeroWorker EXCEPT !.state = arg]
    [] kind = "WORKER_COMPLETE" ->
         [ZeroWorker EXCEPT !.state = Arr(<<"DONE", "green">>), !.done = TRUE,
                            !.error = JsOr(Null, Get(arg))]
    [] OTHER -> ZeroWorker

\* C12: a worker event for a name without a slot, whichever of the five it
\* is, ends without an exception, leaves the name with the state its rule
\* makes of a zero-state worker, and repaints
C12_UnknownWorkerIsInitialised ==
  UnknownWorkerEvent =>
    /\ ~lastEvent.threw
    /\ lastEvent.id \in DOMAIN allWorkerStates
    /\ paintedState = Dashboard
    /\ lastEvent.kind # "WORKER_UPDATE" =>
         allWorkerStates[lastEvent.id] = RuleOnZero(lastEvent.kind, lastEvent.arg)

\* the state field of worker w in the dashboard d
PhaseIn(d, w) == d.allWorkerStates[w].state

\* C13: WORKER_UPDATE without a state in its payload leaves the state of a
\* worker that has a slot as it was before the event
C13_AbsentPhaseKeepsPhase ==
  (/\ lastEvent.kind = "WORKER_UPDATE" /\ lastEvent.arg = Absent
   /\ lastEvent.id \in DOMAIN pre.allWorkerStates) =>
    PhaseIn(Dashboard, lastEvent.id) = PhaseIn(pre, lastEvent.id)

\* the header colour the rendering rule asks for: red for a worker whose
\* error is set
ErrorColor(error) == IF Truthy(error) THEN "red" ELSE "reset"

\* the section of a worker with that header colour
SectionWithColor(color, script, workerState) ==
  IF workerState.output # <<>>
  THEN Style(color, Style("underline", Style("bold", <<"(U+25BC) ", script>>)))
       \o <<"\n", "\n">> \o Indent(Trim(workerState.output)) \o <<"\n", "\n">>
  ELSE <<>>

\* C14: in what is painted, a worker with output has a section whose header
\* is red exactly if its error is set and of the default colour otherwise,
\* and a worker without output has no section
C14_HeaderRedIffError ==
  \A w \in DOMAIN paintedState.allWorkerStates :
    LET workerState == paintedState.allWorkerStates[w]
    IN  WorkerSection(w, workerState)
          = SectionWithColor(ErrorColor(workerState.error), w, workerState)

\* the callback ran last; while it was pending INSTALLING ran, and CONSOLE
\* ran after that INSTALLING and put text in installOutput
RanDuringInstallAndConsole ==
  /\ lastEvent.kind = "TIMEOUT" /\ lastEvent.arg.val[1]
  /\ pre.isInstalling /\ pre.installOutput # <<>>

\* C15: INSTALLING and CONSOLE handled after INSTALL_COMPLETE, while its
\* callback is pending, neither cancel nor skip the callback: they leave the
\* number of pending callbacks as it is, a pending callback can always run,
\* it runs in the end, and when it ran isInstalling is false, installOutput
\* and consoleOutput are empty and there is no prompt, whatever the handlers
\* in between had made of them; the other fields stay as they were
C15_TimerNotCancelled ==
  /\ [][lastEvent'.kind \in {"INSTALLING", "CONSOLE"} => timers' = timers]_vars
  /\ [](timers > 0 => ENABLED InstallTimeout)
  /\ [](RanDuringInstallAndConsole =>
          /\ Cleared
          /\ Dashboard = [pre EXCEPT !.isInstalling = FALSE, !.installOutput = <<>>,
                                     !.consoleOutput = <<>>, !.missingWebModule = Null])
  /\ (timers > 0 /\ isInstalling) ~> (lastEvent.kind = "TIMEOUT" /\ Cleared)

\* the callback ran after INSTALLING and CONSOLE had followed its
\* INSTALL_COMPLETE: a new install was under way, with text in both
\* transcripts, and all of it is gone
C15_Witness ==
  /\ RanDuringInstallAndConsole
  /\ pre.isInstalling /\ pre.installOutput # <<>> /\ pre.consoleOutput # <<>>
  /\ isInstalling = FALSE /\ installOutput = <<>> /\ consoleOutput = <<>>
  /\ missingWebModule = Null

\* a detection with data for another id than that of the active prompt
OtherSourceDetected ==
  /\ lastEvent.kind = "MISSING_WEB_MODULE"
  /\ ~NoPrompt(pre.missingWebModule)
  /\ pre.missingWebModule.val[1] # lastEvent.id
  /\ HasData(lastEvent.arg)

\* C16 as stated: with the prompt of id A active, MISSING_WEB_MODULE(B, D2)
\* for another id B makes (B, D2) the active prompt
C16_OtherSourceReplaces ==
  OtherSourceDetected => missingWebModule = ExpectedPrompt(lastEvent.id, lastEvent.arg)

\* C16 amended: with the prompt of id A active, MISSING_WEB_MODULE(B, D2) for
\* another id B does not make (B, D2) the prompt: the active prompt is still
\* the one of A, with its spec and pkgName, and the dashboard is repainted;
\* in no step does an active prompt give way to a prompt of another id
C16_OtherSourceKeepsOldPrompt ==
  /\ OtherSourceDetected =>
       /\ missingWebModule # ExpectedPrompt(lastEvent.id, lastEvent.arg)
       /\ missingWebModule.val = pre.missingWebModule.val
       /\ paintedState = Dashboard
  /\ (~NoPrompt(pre.missingWebModule) /\ ~NoPrompt(missingWebModule)) =>
       missingWebModule.val[1] = pre.missingWebModule.val[1]

\* (B, D2) arrived while the prompt (A, D1) was active, and (A, D1) is what
\* is shown
C16_Witness ==
  /\ OtherSourceDetected
  /\ lastEvent.id = "B" /\ missingWebModule.val[1] = "A"
  /\ lastEvent.arg.val[2] # missingWebModule.val[3]
  /\ paintedState.missingWebModule = missingWebModule

\* the names in the sequence keys
KeySet(keys) == {keys[i] : i \in 1..Len(keys)}

IsPrefix(s, t) == Len(s) <= Len(t) /\ SubSeq(t, 1, Len(s)) = s

\* the worker sections of the dashboard d, one per name in the order keys
SectionsInOrder(d, keys) ==
  Flatten([i \in 1..Len(keys) |-> WorkerSection(keys[i], d.allWorkerStates[keys[i]])])

\* C17: no handler removes a name from allWorkerStates; the order of the
\* names starts as the order of scripts, every handler keeps the names it
\* found in their places and puts a new name last, and a worker event leaves
\* its name in the order, so the order is that of the first events;
\* WORKER_RESET of a name that has a slot does not move it; each name has
\* one place; and the worker sections are written in that order
C17_WorkersKeepSlotOrder ==
  /\ DOMAIN pre.allWorkerStates \subseteq DOMAIN allWorkerStates
  /\ lastEvent.kind \in WorkerKinds => lastEvent.id \in KeySet(workerKeys)
  /\ IsPrefix(pre.workerKeys, workerKeys)
  /\ nEvents = 0 => workerKeys \in ScriptLists
  /\ KeySet(workerKeys) = DOMAIN allWorkerStates
  /\ Len(workerKeys) = Cardinality(DOMAIN allWorkerStates)
  /\ Len(workerKeys) <= Len(pre.workerKeys) + 1
  /\ Len(workerKeys) = Len(pre.workerKeys) + 1 =>
       (lastEvent.id = workerKeys[Len(workerKeys)]
          /\ lastEvent.id \notin DOMAIN pre.allWorkerStates)
  /\ WorkerSections(paintedState, 1) = SectionsInOrder(paintedState, paintedState.workerKeys)

\* the line a CONSOLE event with this payload adds: "[level] message\n"
ConsoleLine(payload) ==
  <<"[">> \o payload.val[1] \o <<"]", " ">> \o Format(payload.val[2]) \o <<"\n">>

\* C18: every handler leaves consoleOutput as it was, or is CONSOLE on a
\* dashboard that is not installing and puts the line "[level] message\n" at
\* its end, or is the delayed callback of INSTALL_COMPLETE and leaves it
\* empty; no other handler changes it
C18_ConsoleOutputAppendOnly ==
  \/ consoleOutput = pre.consoleOutput
  \/ /\ lastEvent.kind = "CONSOLE" /\ ~pre.isInstalling
     /\ consoleOutput = pre.consoleOutput \o ConsoleLine(lastEvent.arg)
  \/ lastEvent.kind = "TIMEOUT" /\ consoleOutput = <<>>

\* a second line was put after the first
C18_Witness ==
  /\ lastEvent.kind = "CONSOLE"
  /\ pre.consoleOutput # <<>>
  /\ Len(consoleOutput) > Len(pre.consoleOutput)
  /\ SubSeq(consoleOutput, 1, Len(pre.consoleOutput)) = pre.consoleOutput

\* the dashboard d without its workers
NonWorkerFields(d) == [d EXCEPT !.allWorkerStates = <<>>, !.workerKeys = <<>>]

\* what allWorkerStates[w] reads as done, state, error and output in the
\* dashboard d with the inherited objects inh; the zero state for a name
\* found nowhere
WorkerIn(d, inh, w) ==
  IF w \in DOMAIN d.allWorkerStates THEN d.allWorkerStates[w]
  ELSE IF w = ProtoKey
  THEN (IF inh.replaced # <<>> THEN inh.replaced[1]
        ELSE [done |-> OpGet(inh, "done"), error |-> OpGet(inh, "error"),
              state |-> OpGet(inh, "state"), output |-> OpGet(inh, "output")])
  ELSE IF w \in InheritedNames
  THEN [done |-> FnGet(inh, w, "done"), error |-> FnGet(inh, w, "error"),
        state |-> FnGet(inh, w, "state"), output |-> FnGet(inh, w, "output")]
  ELSE ZeroWorker

\* allWorkerStates[w] is an object made from WORKER_BASE_STATE (a slot, the
\* object that replaced the prototype, or the slot setupWorker is to make)
FromBase(d, inh, w) ==
  \/ w \in DOMAIN d.allWorkerStates
  \/ w = ProtoKey /\ inh.replaced # <<>>
  \/ w # ProtoKey /\ w \notin InheritedNames

\* what the handler of a worker event makes of the state old of its worker,
\* an object made from WORKER_BASE_STATE, the payload field being arg
WorkerRule(kind, old, arg) ==
  CASE kind = "WORKER_START" ->
         [old EXCEPT !.state = JsOr(Get(arg), Arr(<<"RUNNING", "yellow">>))]
    [] kind = "WORKER_MSG" -> [old EXCEPT !.output = old.output \o arg.val]
    [] kind = "WORKER_UPDATE" -> [old EXCEPT !.state = Get(arg)]
    [] kind = "WORKER_COMPLETE" ->
         [old EXCEPT !.state = Arr(<<"DONE", "green">>), !.done = TRUE,
                     !.error = JsOr(old.error, Get(arg))]
    [] OTHER -> ZeroWorker

\* what a worker handler other than WORKER_RESET makes of the properties
\* old of an object of Object.prototype that stands in for the slot of its
\* worker
InheritedRule(kind, old, arg) ==
  CASE kind = "WORKER_START" ->
         [old EXCEPT !.state = JsOr(Get(arg), Arr(<<"RUNNING", "yellow">>))]
    [] kind = "WORKER_MSG" ->
         [old EXCEPT !.output =
            [type |-> "string",
             val |-> (IF old.output.type = "string" THEN old.output.val
                      ELSE <<"u", "n", "d", "e", "f", "i", "n", "e", "d">>) \o arg.val]]
    [] kind = "WORKER_UPDATE" -> [old EXCEPT !.state = Get(arg)]
    [] OTHER ->
         [old EXCEPT !.state = Arr(<<"DONE", "green">>),
                     !.done = [type |-> "boolean", val |-> <<TRUE>>],
                     !.error = JsOr(old.error, Get(arg))]

\* C19: a worker event for the name A leaves every other name as it was, with
\* its done, state, error and output, and leaves consoleOutput,
\* installOutput, isInstalling, the prompt, the server fields and
\* allFileBuilds as they were; what A stands for after it is made of what
\* it stood for before and the payload alone (or is what it was when the
\* handler threw); and a handler that is not a worker handler changes no
\* worker
C19_WorkerEventsAreLocal ==
  /\ lastEvent.kind \in WorkerKinds =>
       LET A == lastEvent.id
       IN  /\ \A B \in (WorkerNames \cup InheritedNames) \ {A} :
                WorkerIn(Dashboard, inheritedProps, B) = WorkerIn(pre, preInherited, B)
           /\ NonWorkerFields(Dashboard) = NonWorkerFields(pre)
           /\ WorkerIn(Dashboard, inheritedProps, A) =
                IF lastEvent.threw THEN WorkerIn(pre, preInherited, A)
                ELSE IF FromBase(pre, preInherited, A) \/ lastEvent.kind = "WORKER_RESET"
                THEN WorkerRule(lastEvent.kind, WorkerIn(pre, preInherited, A), lastEvent.arg)
                ELSE InheritedRule(lastEvent.kind, WorkerIn(pre, preInherited, A),
                                   lastEvent.arg)
  /\ lastEvent.kind \notin WorkerKinds =>
       /\ allWorkerStates = pre.allWorkerStates /\ workerKeys = pre.workerKeys
       /\ inheritedProps = preInherited

\* the text piece is part of what was written
Shows(out, piece) == \E i \in 1..Len(out) : out[i] = piece

ShowsStarted(out) == Shows(out, "  Server started.") \/ Shows(out, "  Server started in ")
ShowsStarting(out) == Shows(out, "  Server starting(U+2026)")
ShowsBuilding(out) == Shows(out, " Building...")

IsPositive(v) == v.type = "number" /\ v.val[1] > 0

\* path.resolve(cwd, id): the absolute path a file id stands for
Resolve(id) == <<"/">> \o PathResolve(Cwd, id)

\* C20: what is on the screen shows the server as started exactly if
\* startTimeMs > 0, port > 0 and protocol is not empty, and shows the
\* 'Server starting' placeholder otherwise, as it does as long as no
\* SERVER_START was handled (only SERVER_START assigns the server fields,
\* which start undefined and empty); ' Building...' is shown exactly if the
\* server is shown as started and allFileBuilds is not empty, where
\* BUILD_FILE with isBuilding true puts the file in allFileBuilds, with
\* isBuilding false takes the same file out, and nothing else changes it
C20_ServerLineShowsState ==
  LET out == stdout
      started == IsPositive(startTimeMs) /\ IsPositive(port) /\ protocol # <<>>
      active(d) == {Resolve(p) : p \in d.allFileBuilds}
  IN  /\ ShowsStarted(out) <=> started
      /\ ShowsStarting(out) <=> ~started
      /\ ShowsBuilding(out) <=> (started /\ allFileBuilds # {})
      /\ nEvents = 0 => (startTimeMs = Undefined /\ port = Undefined /\ protocol = <<>>
                         /\ allFileBuilds = {})
      /\ lastEvent.kind # "SERVER_START" =>
           (startTimeMs = pre.startTimeMs /\ port = pre.port /\ protocol = pre.protocol)
      /\ (startTimeMs = Undefined /\ port = Undefined) => ShowsStarting(out)
      /\ IF lastEvent.kind = "BUILD_FILE"
         THEN active(Dashboard) =
                IF lastEvent.arg.val[2]
                THEN active(pre) \cup {Resolve(lastEvent.arg.val[1])}
                ELSE active(pre) \ {Resolve(lastEvent.arg.val[1])}
         ELSE allFileBuilds = pre.allFileBuilds

\* the server is shown as started and the build of the one active file has
\* just ended: the suffix, shown before, is gone
C20_Witness ==
  /\ lastEvent.kind = "BUILD_FILE" /\ lastEvent.arg.val[2] = FALSE
  /\ pre.allFileBuilds # {} /\ allFileBuilds = {}
  /\ ShowsBuilding(Repaint(pre))
  /\ ShowsStarted(stdout) /\ ~ShowsBuilding(stdout)
====
